---- MODULE Spec2Model ----
(***************************************************************************)
(* Model of the LegalDoc AI single-page application:                       *)
(*   App                (src/src/services/gemini.ts, second half)          *)
(*   GeminiService      (src/src/services/gemini.ts, first half)           *)
(*   PDFUpload          (src/unnamed/part_000)                             *)
(*   DocumentAnalysis   (src/unnamed/part_001)                             *)
(*   ChatInterface      (src/unnamed/part_002)                             *)
(*                                                                         *)
(* Strings the code computes on (document text, service replies, chat      *)
(* input) are sequences of one-character strings.  Strings the code only   *)
(* stores or compares (error messages, MIME types, file names) are TLA+    *)
(* strings.  React state is one variable per useState cell; a handler and  *)
(* the render and effects it triggers are one action; every await is a     *)
(* separate settle action.                                                 *)
(***************************************************************************)
EXTENDS Integers, Sequences, FiniteSets, TLC

VARIABLES
    apiKey,             \* gemini.ts:4    API_KEY is present
    uploadedFile,       \* App            useState<File | null>
    extractedText,      \* App            useState<string>
    appAnalysis,        \* App            useState<string>  (analysis)
    isAnalyzing,        \* App            useState(false)
    isExtracting,       \* PDFUpload      useState(false)
    extractionError,    \* PDFUpload      useState<string | null>
    extractionSuccess,  \* PDFUpload      useState(false)
    analysis,           \* DocumentAnalysis useState<AnalysisResult | null>
    analysisError,      \* DocumentAnalysis useState<string | null> (error)
    autoAnalyzeStarted, \* DocumentAnalysis useState(false)
    messages,           \* ChatInterface  useState<Message[]>
    input,              \* ChatInterface  useState('')
    isLoading,          \* ChatInterface  useState(false)
    chatError,          \* ChatInterface  useState<string | null> (error)
    extractionJob,      \* the pending extractTextFromPDF promise of onDrop
    analyzeCalls,       \* the pending GeminiService.analyzeDocument promises
    askCalls,           \* the pending GeminiService.askQuestion promises
    callsStarted,       \* history: number of analyzeDocument calls issued
    questionsAsked,     \* history: number of askQuestion calls issued
    analysisFrom,       \* history: id of the call whose result is stored
    lastOp,             \* history: the handler that ran last
    svc,                \* a direct call of a GeminiService method
    ext                 \* one run of extractTextFromPDF, page by page

vars == <<apiKey, uploadedFile, extractedText, appAnalysis, isAnalyzing,
          isExtracting, extractionError, extractionSuccess,
          analysis, analysisError, autoAnalyzeStarted,
          messages, input, isLoading, chatError,
          extractionJob, analyzeCalls, askCalls,
          callsStarted, questionsAsked, analysisFrom, lastOp, svc, ext>>

sessionVars == <<apiKey, uploadedFile, extractedText, appAnalysis, isAnalyzing,
          isExtracting, extractionError, extractionSuccess,
          analysis, analysisError, autoAnalyzeStarted,
          messages, input, isLoading, chatError,
          extractionJob, analyzeCalls, askCalls,
          callsStarted, questionsAsked, analysisFrom, lastOp>>

----------------------------------------------------------------------------
(* Bounds of the model *)

\* analyzeDocument calls issued in one session
MaxCalls == 3
\* questions submitted in one session
MaxQuestions == 1

----------------------------------------------------------------------------
(* Strings as sequences of characters *)

\* the characters String.prototype.trim and the regex class \s treat as blank
IsSpace(c) == c \in {" ", "\n", "\t"}

RECURSIVE TrimStart(_)
TrimStart(s) ==
    IF s # <<>> /\ IsSpace(Head(s)) THEN TrimStart(Tail(s)) ELSE s

RECURSIVE TrimEnd(_)
TrimEnd(s) ==
    IF s # <<>> /\ IsSpace(s[Len(s)])
    THEN TrimEnd(SubSeq(s, 1, Len(s) - 1))
    ELSE s

\* String.prototype.trim
Trim(s) == TrimEnd(TrimStart(s))

\* String.prototype.startsWith
StartsWith(s, p) == Len(s) >= Len(p) /\ SubSeq(s, 1, Len(p)) = p

\* String.prototype.endsWith
EndsWith(s, p) == Len(s) >= Len(p) /\ SubSeq(s, Len(s) - Len(p) + 1, Len(s)) = p

\* String.prototype.substring(n)
Substring(s, n) == SubSeq(s, n + 1, Len(s))

\* Array.prototype.join
RECURSIVE Join(_, _)
Join(ss, sep) ==
    IF ss = <<>> THEN <<>>
    ELSE IF Len(ss) = 1 THEN ss[1]
    ELSE ss[1] \o sep \o Join(Tail(ss), sep)

\* a word of n letters
Word(n) == [i \in 1..n |-> "a"]

----------------------------------------------------------------------------
(* GeminiService (src/src/services/gemini.ts) *)

\* const model = genAI?.getGenerativeModel(...): present iff API_KEY is
HasModel == apiKey

\* GeminiService.isConfigured
IsConfigured == apiKey /\ HasModel

\* the backtick character (the parser admits no backtick inside a string)
Backtick == "^"

Fence == <<Backtick, Backtick, Backtick>>

FenceJson == Fence \o <<"j", "s", "o", "n">>

\* cleanGeminiResponse leaving a closing fence in place
cleanKeepClosingFence(response) ==
    LET cleaned0 == Trim(response)
        cleaned1 == IF StartsWith(cleaned0, FenceJson) THEN Substring(cleaned0, 7)
                    ELSE IF StartsWith(cleaned0, Fence) THEN Substring(cleaned0, 3)
                    ELSE cleaned0
    IN  Trim(cleaned1)

cleanGeminiResponse(response) ==
    LET cleaned0 == Trim(response)
        cleaned1 == IF StartsWith(cleaned0, FenceJson) THEN Substring(cleaned0, 7)
                    ELSE IF StartsWith(cleaned0, Fence) THEN Substring(cleaned0, 3)
                    ELSE cleaned0
        cleaned2 == IF EndsWith(cleaned1, Fence)
                    THEN SubSeq(cleaned1, 1, Len(cleaned1) - 3)
                    ELSE cleaned1
    IN  Trim(cleaned2)

\* JavaScript values the analysis state can hold
JsNull == [kind |-> "null"]

JsObject(fields) == [kind |-> "object", obj |-> fields]

\* The member lists a reply can carry are written as one character each:
\*   "A", "B", "C"  the eight members of AnalysisResult, well formed
\*   "S"       the member "summary" alone
\*   "N"       the literal null
MembersA ==
    [summary |-> "s1", keyPoints |-> <<"k1", "k2">>, legalIssues |-> <<"i1">>,
     recommendations |-> <<"r1">>, documentType |-> "Contract",
     parties |-> <<"P1", "P2">>, dates |-> <<"d1">>, jurisdiction |-> "Delaware"]

MembersB ==
    [summary |-> "s2", keyPoints |-> <<"k3">>, legalIssues |-> <<>>,
     recommendations |-> <<>>, documentType |-> "Letter",
     parties |-> <<"Not specified">>, dates |-> <<"Not specified">>,
     jurisdiction |-> "Not specified"]

\* a complete record with the sentinel after a date
MembersC ==
    [summary |-> "s4", keyPoints |-> <<>>, legalIssues |-> <<"i2">>,
     recommendations |-> <<"r2">>, documentType |-> "Lease",
     parties |-> <<"P3">>, dates |-> <<"d2", "Not specified">>,
     jurisdiction |-> "Not specified"]

MembersS == [summary |-> "s3"]

MembersNone == [f \in {} |-> ""]

\* the literal of gemini.ts:106-115
FallbackAnalysis ==
    [summary |-> "Document analysis completed. The AI has processed the available content and extracted key information where possible.",
     keyPoints |-> <<"Document uploaded and processed",
                     "Content analyzed for key information",
                     "Analysis completed with available data">>,
     legalIssues |-> <<"Text extraction quality may affect analysis accuracy">>,
     recommendations |-> <<"Review the original document for complete accuracy",
                           "Consider re-uploading if text appears corrupted",
                           "Consult with a legal professional for important matters">>,
     documentType |-> "Document (type analysis in progress)",
     parties |-> <<"Analysis in progress">>,
     dates |-> <<"Analysis in progress">>,
     jurisdiction |-> "Not specified"]

\* JSON.parse on the texts above: blanks between tokens are insignificant,
\* anything that is not one complete value is a SyntaxError
JSONParse(s) ==
    LET t == SelectSeq(s, LAMBDA c : ~IsSpace(c))
    IN  IF t = <<"{", "A", "}">> THEN [ok |-> TRUE, value |-> JsObject(MembersA)]
        ELSE IF t = <<"{", "B", "}">> THEN [ok |-> TRUE, value |-> JsObject(MembersB)]
        ELSE IF t = <<"{", "C", "}">> THEN [ok |-> TRUE, value |-> JsObject(MembersC)]
        ELSE IF t = <<"{", "S", "}">> THEN [ok |-> TRUE, value |-> JsObject(MembersS)]
        ELSE IF t = <<"{", "}">> THEN [ok |-> TRUE, value |-> JsObject(MembersNone)]
        ELSE IF t = <<"N">> THEN [ok |-> TRUE, value |-> JsNull]
        ELSE [ok |-> FALSE, value |-> JsNull]

Throw(m) == [kind |-> "throw", message |-> m]

Return(v) == [kind |-> "return", value |-> v]

NotConfiguredMsg == "Gemini API is not configured. Please provide a valid API key."

AnalyzeFailedMsg == "Failed to analyze document. Please check your API key and try again."

AskFailedMsg == "Failed to get answer. Please check your API key and try again."

\* analyzeDocument with the inner catch rethrowing: the parse error reaches
\* the outer catch
AnalyzeRethrowParseError(text, transportOk, reply) ==
    IF ~HasModel THEN Throw(NotConfiguredMsg)
    ELSE IF ~transportOk THEN Throw(AnalyzeFailedMsg)
    ELSE LET parsed == JSONParse(cleanGeminiResponse(reply))
         IN  IF parsed.ok THEN Return(parsed.value)
             ELSE Throw(AnalyzeFailedMsg)

\* analyzeDocument with the outer catch returning the fallback literal
AnalyzeSwallowTransport(text, transportOk, reply) ==
    IF ~HasModel THEN Throw(NotConfiguredMsg)
    ELSE IF ~transportOk THEN Return(JsObject(FallbackAnalysis))
    ELSE LET parsed == JSONParse(cleanGeminiResponse(reply))
         IN  IF parsed.ok THEN Return(parsed.value)
             ELSE Return(JsObject(FallbackAnalysis))

\* GeminiService.analyzeDocument: text is the document text, transportOk
\* whether model.generateContent and response.text() fulfil, reply the text
\* they deliver
AnalyzeDocument(text, transportOk, reply) ==
    IF ~HasModel THEN Throw(NotConfiguredMsg)
    ELSE IF ~transportOk THEN Throw(AnalyzeFailedMsg)
    ELSE LET parsed == JSONParse(cleanGeminiResponse(reply))
         IN  IF parsed.ok THEN Return(parsed.value)
             ELSE Return(JsObject(FallbackAnalysis))

\* GeminiService.askQuestion
AskQuestion(documentText, question, previousContext, transportOk, reply) ==
    IF ~HasModel THEN Throw(NotConfiguredMsg)
    ELSE IF ~transportOk THEN Throw(AskFailedMsg)
    ELSE Return(reply)

(* Replies of the service *)

Blank == <<" ">>

Newline == <<"\n">>

ReplyPrefixes == {<<>>, Newline, FenceJson, FenceJson \o Newline, Fence \o Newline,
                  Blank \o FenceJson \o Newline}

ReplyBodies == {<<"{", "A", "}">>, <<"{", " ", "B", "}">>, <<"{", "\n", "C", "\n", "}">>,
                <<"{", "S", "}">>,
                <<"{", "}">>, <<"N">>, <<"{", "A">>, <<"x", " ", "x">>, <<>>}

ReplySuffixes == {<<>>, Fence, Newline \o Fence, Newline \o Fence \o Newline}

Replies == {p \o b \o s : p \in ReplyPrefixes, b \in ReplyBodies, s \in ReplySuffixes}

\* a document text and a question for direct calls
SvcTexts == {Word(3), Word(4)}

(* Direct calls of the service *)

SvcIdle == [phase |-> "idle"]

SvcCallAnalyze ==
    /\ svc = SvcIdle
    /\ \E text \in SvcTexts, ok \in BOOLEAN, reply \in Replies :
         svc' = [phase |-> "called", method |-> "analyzeDocument", text |-> text,
                 transportOk |-> ok, reply |-> reply]
    /\ UNCHANGED <<sessionVars, ext>>

SvcSettleAnalyze ==
    /\ svc.phase = "called"
    /\ svc.method = "analyzeDocument"
    /\ svc' = [phase |-> "settled", method |-> svc.method, text |-> svc.text,
               transportOk |-> svc.transportOk, reply |-> svc.reply,
               out |-> AnalyzeDocument(svc.text, svc.transportOk, svc.reply)]
    /\ UNCHANGED <<sessionVars, ext>>

SvcCallAsk ==
    /\ svc = SvcIdle
    /\ \E text \in SvcTexts, ok \in BOOLEAN, reply \in ReplyBodies :
         svc' = [phase |-> "called", method |-> "askQuestion", text |-> text,
                 transportOk |-> ok, reply |-> reply]
    /\ UNCHANGED <<sessionVars, ext>>

SvcSettleAsk ==
    /\ svc.phase = "called"
    /\ svc.method = "askQuestion"
    /\ svc' = [phase |-> "settled", method |-> svc.method, text |-> svc.text,
               transportOk |-> svc.transportOk, reply |-> svc.reply,
               out |-> AskQuestion(svc.text, <<"q">>, <<>>, svc.transportOk, svc.reply)]
    /\ UNCHANGED <<sessionVars, ext>>

----------------------------------------------------------------------------
(* PDFUpload (src/unnamed/part_000) *)

PdfMime == "application/pdf"

\* 50 * 1024 * 1024, part_000:126 and part_000:155
MaxFileSize == 50 * 1024 * 1024

\* part_000:95 and part_000:135
MinTextLength == 50

NoFile == [none |-> TRUE]

NoError == "<null>"

(* What pdfjs finds in a file: whether getDocument fulfils, and for each
   page whether getPage/getTextContent fulfil and the str of its items *)
Page(items) == [ok |-> TRUE, items |-> items]

FailingPage == [ok |-> FALSE, items |-> <<>>]

DocCorrupt == [opens |-> FALSE, pages |-> <<>>]

DocScanned == [opens |-> TRUE, pages |-> <<Page(<<>>), Page(<<>>)>>]

DocPageFails == [opens |-> TRUE, pages |-> <<Page(<<Word(30)>>), FailingPage>>]

DocText == [opens |-> TRUE,
            pages |-> <<Page(<<Word(30), Word(10)>>), Page(<<Word(20) \o <<"\n">>, Word(5)>>)>>]

DocText50 == [opens |-> TRUE, pages |-> <<Page(<<Word(24)>>), Page(<<Word(25)>>)>>]

DocText49 == [opens |-> TRUE, pages |-> <<Page(<<Word(24)>>), Page(<<Word(24)>>)>>]

Docs == {DocCorrupt, DocScanned, DocPageFails, DocText, DocText50, DocText49}

ParserOpenMsg == "Invalid PDF structure."

ParserPageMsg == "Page text content unavailable."

InsufficientReadableMsg == "Could not extract sufficient readable text from the PDF. The document might be image-based, password-protected, or contain mostly non-text content."

InsufficientMsg == "Could not extract sufficient text from the PDF. The document might be image-based, password-protected, or contain mostly non-text content."

PdfOnlyMsg == "Please upload a PDF file only."

TooLargeMsg == "File size must be less than 50MB."

\* a file object
File(name, type, size, doc) == [name |-> name, type |-> type, size |-> size, doc |-> doc]

\* the files a user can drop or select: every pairing of extension and
\* declared type, the sizes around the ceiling, every kind of content
Files ==
    {File("contract.pdf", PdfMime, 1024, d) : d \in Docs \ {DocText50}}
    \cup {File("contract.pdf", "text/plain", 1024, DocText),
          File("notes.txt", PdfMime, 1024, DocScanned),
          File("notes.txt", "text/plain", 1024, DocText),
          File("contract.pdf", PdfMime, MaxFileSize, DocText50),
          File("contract.pdf", PdfMime, MaxFileSize + 1, DocText),
          File("contract.pdf", "text/plain", MaxFileSize + 1, DocText)}

HasPdfExtension(name) == name = "contract.pdf"

\* useDropzone({accept: {'application/pdf': ['.pdf']}, multiple: false,
\* maxSize: 50 * 1024 * 1024}): the acceptedFiles handed to onDrop
DropzoneAccepted(file) ==
    IF /\ (file.type = PdfMime \/ HasPdfExtension(file.name))
       /\ file.size <= MaxFileSize
    THEN <<file>>
    ELSE <<>>

\* the largest j with s[i..j] all blank (i - 1 when s[i] is not blank)
RECURSIVE SpaceRunEnd(_, _)
SpaceRunEnd(s, i) ==
    IF i <= Len(s) /\ IsSpace(s[i]) THEN SpaceRunEnd(s, i + 1) ELSE i - 1

\* .replace(/\s+/g, ' ')
RECURSIVE CollapseFrom(_, _)
CollapseFrom(s, i) ==
    IF i > Len(s) THEN <<>>
    ELSE IF IsSpace(s[i]) THEN <<" ">> \o CollapseFrom(s, SpaceRunEnd(s, i) + 1)
    ELSE <<s[i]>> \o CollapseFrom(s, i + 1)

CollapseWhitespace(s) == CollapseFrom(s, 1)

\* the last line break in s[lo..hi], 0 when there is none
LastNewline(s, lo, hi) ==
    LET ks == {k \in lo..hi : s[k] = "\n"}
    IN  IF ks = {} THEN 0 ELSE CHOOSE k \in ks : \A m \in ks : m <= k

\* .replace(/\n\s*\n/g, '\n')
RECURSIVE BlankLinesFrom(_, _)
BlankLinesFrom(s, i) ==
    IF i > Len(s) THEN <<>>
    ELSE IF s[i] = "\n" /\ LastNewline(s, i + 1, SpaceRunEnd(s, i + 1)) # 0
         THEN <<"\n">> \o BlankLinesFrom(s, LastNewline(s, i + 1, SpaceRunEnd(s, i + 1)) + 1)
         ELSE <<s[i]>> \o BlankLinesFrom(s, i + 1)

RemoveEmptyLines(s) == BlankLinesFrom(s, 1)

\* part_000:90-93
CleanText(fullText) == Trim(RemoveEmptyLines(CollapseWhitespace(fullText)))

\* part_000:66-74 and 86-87
PageTexts(doc) == [i \in 1..Len(doc.pages) |-> Join(doc.pages[i].items, <<" ">>)]

FullText(doc) == Join(PageTexts(doc), <<"\n", "\n">>)

\* extractTextFromPDF refusing a text of exactly the minimum length
extractRejectsAtThreshold(file) ==
    IF ~file.doc.opens THEN Throw(ParserOpenMsg)
    ELSE IF \E i \in 1..Len(file.doc.pages) : ~file.doc.pages[i].ok
         THEN Throw(ParserPageMsg)
    ELSE LET cleanedText == CleanText(FullText(file.doc))
         IN  IF cleanedText = <<>> \/ Len(cleanedText) <= MinTextLength
             THEN Throw(InsufficientReadableMsg)
             ELSE Return(cleanedText)

\* extractTextFromPDF: the promise's outcome
extractTextFromPDF(file) ==
    IF ~file.doc.opens THEN Throw(ParserOpenMsg)
    ELSE IF \E i \in 1..Len(file.doc.pages) : ~file.doc.pages[i].ok
         THEN Throw(ParserPageMsg)
    ELSE LET cleanedText == CleanText(FullText(file.doc))
         IN  IF cleanedText = <<>> \/ Len(cleanedText) < MinTextLength
             THEN Throw(InsufficientReadableMsg)
             ELSE Return(cleanedText)

(* One run of extractTextFromPDF, page by page *)

\* setExtractionProgress's argument, (pageNum / pdf.numPages) * 100
\* (part_000:77), to its integer part
Progress(pageNum, numPages) == (pageNum * 100) \div numPages

\* the example text: "A", "B    C\n" on the first page, "D" on the second
DocExample ==
    [opens |-> TRUE,
     pages |-> <<Page(<<<<"A">>, <<"B", " ", " ", " ", " ", "C", "\n">>>>),
                 Page(<<<<"D">>>>)>>]

DocThreePages ==
    [opens |-> TRUE, pages |-> <<Page(<<Word(20)>>), Page(<<Word(20)>>), Page(<<Word(20)>>)>>]

\* blanks before, inside and after the text of a page
Paddings == {<<>>, <<" ">>, <<"\n", "\t">>}

Gaps == {<<" ">>, <<" ", " ">>, <<"\n", "\n", "\n">>, <<"\t">>}

\* one-page documents of two words, 50 and 49 characters once normalized
DocsPadded ==
    {[opens |-> TRUE,
      pages |-> <<Page(<<lead \o Word(24) \o gap \o Word(n) \o trail>>)>>] :
        lead \in Paddings, gap \in Gaps, trail \in Paddings, n \in {24, 25}}

ExtractDocs == Docs \cup {DocExample, DocThreePages} \cup DocsPadded

\* Promise.all with the results taken in the order the promises settled
PromiseAllAsSettled(pages, order) ==
    IF Len(order) = Len(pages) THEN [k \in 1..Len(pages) |-> pages[order[k]]]
    ELSE pages

\* Promise.all(textPromises) (part_000:86): the results of the page promises,
\* each at the index of its promise, whatever the order they settled in
PromiseAll(pages, order) == [i \in 1..Len(pages) |-> pages[i]]

ExtIdle == [phase |-> "idle"]

\* extractTextFromPDF(file) is called: file.arrayBuffer() and getDocument
\* are awaited (part_000:53-56)
ExtCall ==
    /\ ext = ExtIdle
    /\ \E doc \in ExtractDocs : ext' = [phase |-> "opening", doc |-> doc]
    /\ UNCHANGED <<sessionVars, svc>>

\* getDocument settles (part_000:56-83): on success the page promises are
\* created, on failure the catch rethrows
ExtOpened ==
    /\ ext.phase = "opening"
    /\ ext' = IF ext.doc.opens
              THEN [phase |-> "pages", doc |-> ext.doc, done |-> {}, failed |-> {},
                    order |-> <<>>, reports |-> <<>>, progress |-> 0]
              ELSE [phase |-> "settled", doc |-> ext.doc, done |-> {}, failed |-> {},
                    order |-> <<>>, reports |-> <<>>, progress |-> 0,
                    cleanedText |-> <<>>, out |-> Throw(ParserOpenMsg)]
    /\ UNCHANGED <<sessionVars, svc>>

\* the promise of one page settles (part_000:64-80), in any order: a page
\* that yields its text reports progress, also after Promise.all has rejected
ExtPageDone ==
    /\ ext.phase \in {"pages", "settled", "handled"}
    /\ \E pageNum \in (1..Len(ext.doc.pages)) \ (ext.done \cup ext.failed) :
         ext' = IF ext.doc.pages[pageNum].ok
                THEN [ext EXCEPT !.done = @ \cup {pageNum},
                                 !.order = Append(@, pageNum),
                                 !.reports = Append(@, Progress(pageNum, Len(ext.doc.pages))),
                                 !.progress = Progress(pageNum, Len(ext.doc.pages))]
                ELSE [ext EXCEPT !.failed = @ \cup {pageNum}]
    /\ UNCHANGED <<sessionVars, svc>>

\* Promise.all settles (part_000:86-106): fulfilled once every page has,
\* rejected as soon as one page has
ExtJoin ==
    /\ ext.phase = "pages"
    /\ ext.failed # {} \/ ext.done = 1..Len(ext.doc.pages)
    /\ LET retrieved == [opens |-> TRUE, pages |-> PromiseAll(ext.doc.pages, ext.order)]
       IN  ext' = [phase |-> "settled", doc |-> ext.doc, done |-> ext.done,
                   failed |-> ext.failed, order |-> ext.order,
                   reports |-> ext.reports, progress |-> ext.progress,
                   cleanedText |-> IF ext.failed = {} THEN CleanText(FullText(retrieved))
                                   ELSE <<>>,
                   out |-> extractTextFromPDF([doc |-> retrieved])]
    /\ UNCHANGED <<sessionVars, svc>>

\* onDrop after its await (part_000:133-146): the second length check, then
\* onTextExtracted(extractedText) or the catch, then the finally block, which
\* passes 0 to setExtractionProgress
ExtHandled ==
    /\ ext.phase = "settled"
    /\ ext' = [phase |-> "handled", doc |-> ext.doc, done |-> ext.done,
               failed |-> ext.failed, order |-> ext.order, reports |-> ext.reports,
               progress |-> 0,
               cleanedText |-> ext.cleanedText, out |-> ext.out,
               delivered |-> IF ext.out.kind = "return" /\ ext.out.value # <<>>
                                /\ Len(ext.out.value) >= MinTextLength
                             THEN ext.out.value ELSE <<>>,
               error |-> IF ext.out.kind = "throw" THEN ext.out.message
                         ELSE IF ext.out.value = <<>> \/ Len(ext.out.value) < MinTextLength
                         THEN InsufficientMsg ELSE NoError]
    /\ UNCHANGED <<sessionVars, svc>>

\* part_000:120-128: the message thrown, NoError when none is
ValidationError(file) ==
    IF file.type # PdfMime THEN PdfOnlyMsg
    ELSE IF file.size > MaxFileSize THEN TooLargeMsg
    ELSE NoError

\* App renders PDFUpload only while no file is current (gemini.ts:343);
\* state updates of the unmounted component are dropped
PDFUploadMounted == uploadedFile = NoFile

----------------------------------------------------------------------------
(* DocumentAnalysis (src/unnamed/part_001): analyzeDocument and the
   auto-analyze effect, as functions of the component's state *)

NoTextMsg == "No text extracted from the document."

\* JSON.stringify(result, null, 2)
JSONStringify(value) == [json |-> value]

EmptyString == [text |-> ""]

\* the state analyzeDocument reads and writes
PaneState == [analysisError |-> analysisError, isAnalyzing |-> isAnalyzing,
              analyzeCalls |-> analyzeCalls, callsStarted |-> callsStarted,
              autoAnalyzeStarted |-> autoAnalyzeStarted]

\* analyzeDocument without its test of the text
analyzeDocumentUnguarded(text, st) ==
    [st EXCEPT !.isAnalyzing = TRUE,
               !.analysisError = NoError,
               !.analyzeCalls = @ \cup {[id |-> st.callsStarted + 1, text |-> text]},
               !.callsStarted = @ + 1]

\* analyzeDocument up to its await (part_001:61-71)
analyzeDocument(text, st) ==
    IF text = <<>>
    THEN [st EXCEPT !.analysisError = NoTextMsg]
    ELSE [st EXCEPT !.isAnalyzing = TRUE,
                    !.analysisError = NoError,
                    !.analyzeCalls = @ \cup {[id |-> st.callsStarted + 1, text |-> text]},
                    !.callsStarted = @ + 1]

\* the effect without its isConfigured test
autoAnalyzeUnconfigured(text, st) ==
    IF text # <<>> /\ ~st.autoAnalyzeStarted
    THEN analyzeDocument(text, [st EXCEPT !.autoAnalyzeStarted = TRUE])
    ELSE st

\* the effect of part_001:83-88, run after a render that changed its
\* dependencies
autoAnalyzeEffect(text, st) ==
    IF text # <<>> /\ ~st.autoAnalyzeStarted /\ IsConfigured
    THEN analyzeDocument(text, [st EXCEPT !.autoAnalyzeStarted = TRUE])
    ELSE st

\* the chips of the Parties Involved list (part_001:365-382) for a stored
\* result that has its lists
partiesChips(result) ==
    IF Len(result.parties) > 0 /\ result.parties[1] # "Not specified"
    THEN result.parties
    ELSE <<>>

\* the chips of the Important Dates list (part_001:384-401)
datesChips(result) ==
    IF Len(result.dates) > 0 /\ result.dates[1] # "Not specified"
    THEN result.dates
    ELSE <<>>

\* writes a pane state back
SetPane(st) ==
    /\ analysisError' = st.analysisError
    /\ isAnalyzing' = st.isAnalyzing
    /\ analyzeCalls' = st.analyzeCalls
    /\ callsStarted' = st.callsStarted
    /\ autoAnalyzeStarted' = st.autoAnalyzeStarted

\* the AI Analysis card rendered whether or not the service is configured
AnalysisCardAlwaysRendered == uploadedFile # NoFile

\* the AI Analysis card is rendered (part_001:206), inside the branch of App
\* that has a file (gemini.ts:363)
AnalysisCardRendered == uploadedFile # NoFile /\ IsConfigured

----------------------------------------------------------------------------
(* ChatInterface (src/unnamed/part_002): messages *)

ApologyText == "I apologize, but I encountered an error processing your question. Please try again or rephrase your question."

ChatNotConfiguredMsg == "Gemini AI is not configured. Please check your API key."

ChatNoTextMsg == "No document text available. Please upload a document first."

\* content of a message: a fixed text of the code, or characters that came
\* from the user or the service
Literal(s) == [literal |-> s]

Chars(cs) == [chars |-> cs]

WelcomeMessage(fileName) == [type |-> "assistant", content |-> [welcome |-> fileName]]

UserMessage(cs) == [type |-> "user", content |-> Chars(cs)]

AssistantMessage(content) == [type |-> "assistant", content |-> content]

\* the welcome effect missing: the conversation is left as it is
welcomeEffectMissing(text, fileName, msgs) == msgs

\* the effect of part_002:55-65
welcomeEffect(text, fileName, msgs) ==
    IF text # <<>> /\ msgs = <<>> THEN <<WelcomeMessage(fileName)>> ELSE msgs

\* what the user can type, and the suggested question buttons
Inputs == {<<>>, <<" ">>, <<"q">>, <<" ", "r", " ">>}

SuggestedQuestions == {<<"q">>}

AskReplies == {<<"y">>, <<" ", "n">>}

\* the input form is rendered (part_002:168-184 and 315)
ChatFormRendered == uploadedFile # NoFile /\ IsConfigured /\ extractedText # <<>>

----------------------------------------------------------------------------
(* The session *)

chatVars == <<messages, input, isLoading, chatError, askCalls, questionsAsked>>

paneVars == <<analysisError, isAnalyzing, analyzeCalls, callsStarted, autoAnalyzeStarted>>

uploadVars == <<isExtracting, extractionError, extractionSuccess>>

InitSession ==
    /\ uploadedFile = NoFile
    /\ extractedText = <<>>
    /\ appAnalysis = EmptyString
    /\ isAnalyzing = FALSE
    /\ isExtracting = FALSE
    /\ extractionError = NoError
    /\ extractionSuccess = FALSE
    /\ analysis = JsNull
    /\ analysisError = NoError
    /\ autoAnalyzeStarted = FALSE
    /\ messages = <<>>
    /\ input = <<>>
    /\ isLoading = FALSE
    /\ chatError = NoError
    /\ extractionJob = NoFile
    /\ analyzeCalls = {}
    /\ askCalls = {}
    /\ callsStarted = 0
    /\ questionsAsked = 0
    /\ analysisFrom = 0
    /\ lastOp = "init"

Init ==
    /\ apiKey \in BOOLEAN
    /\ InitSession
    /\ svc = SvcIdle
    /\ ext = ExtIdle

\* App.handleFileUpload (gemini.ts:251-254)
handleFileUpload(file) ==
    /\ uploadedFile' = file
    /\ appAnalysis' = EmptyString

\* App.handleTextExtracted (gemini.ts:256-258)
handleTextExtracted(text) ==
    extractedText' = text

\* handleAnalysisComplete without its setAnalysis: only the flag is cleared
handleAnalysisCompleteFlagOnly(analysisResult) ==
    /\ appAnalysis' = appAnalysis
    /\ isAnalyzing' = FALSE

\* App.handleAnalysisComplete (gemini.ts:260-263)
handleAnalysisComplete(analysisResult) ==
    /\ appAnalysis' = analysisResult
    /\ isAnalyzing' = FALSE

\* PDFUpload.onDrop up to its await (part_000:109-133), for the files the
\* dropzone hands over
onDrop(acceptedFiles) ==
    IF acceptedFiles = <<>>
    THEN UNCHANGED <<uploadedFile, appAnalysis, uploadVars, extractionJob>>
    ELSE LET file == acceptedFiles[1]
         IN  IF ValidationError(file) # NoError
             THEN /\ isExtracting' = FALSE
                  /\ extractionError' = ValidationError(file)
                  /\ extractionSuccess' = FALSE
                  /\ UNCHANGED <<uploadedFile, appAnalysis, extractionJob>>
             ELSE /\ isExtracting' = TRUE
                  /\ extractionError' = NoError
                  /\ extractionSuccess' = FALSE
                  /\ handleFileUpload(file)
                  /\ extractionJob' = file

\* the user drops or selects one file on the dropzone, which is attached
\* while PDFUpload is rendered and takes pointer events while not extracting
\* (part_000:149-171)
DropFile(file) ==
    /\ PDFUploadMounted
    /\ ~isExtracting
    /\ onDrop(DropzoneAccepted(file))
    /\ lastOp' = "onDrop"
    /\ UNCHANGED <<apiKey, extractedText, isAnalyzing, analysis, paneVars,
                   chatVars, analysisFrom, svc, ext>>

Drop == \E file \in Files : DropFile(file)

\* PDFUpload's setters after the await: dropped once the component is gone
SetUploadState(error, success) ==
    IF PDFUploadMounted
    THEN /\ extractionError' = error
         /\ extractionSuccess' = success
         /\ isExtracting' = FALSE
    ELSE UNCHANGED uploadVars

\* onDrop from its await on (part_000:133-146): extractTextFromPDF settles;
\* then the render, the auto-analyze effect and the welcome effect
ExtractSettle ==
    /\ extractionJob # NoFile
    /\ LET out == extractTextFromPDF(extractionJob)
           tooShort == out.kind = "return" /\
                       (out.value = <<>> \/ Len(out.value) < MinTextLength)
       IN  IF out.kind = "throw" \/ tooShort
           THEN /\ SetUploadState(IF out.kind = "throw" THEN out.message
                                  ELSE InsufficientMsg, extractionSuccess)
                /\ UNCHANGED <<extractedText, paneVars, messages>>
           ELSE /\ handleTextExtracted(out.value)
                /\ SetUploadState(extractionError, TRUE)
                /\ SetPane(autoAnalyzeEffect(out.value, PaneState))
                /\ messages' = welcomeEffect(out.value, uploadedFile.name, messages)
    /\ extractionJob' = NoFile
    /\ lastOp' = "extractSettle"
    /\ UNCHANGED <<apiKey, uploadedFile, appAnalysis, analysis, input, isLoading,
                   chatError, askCalls, questionsAsked, analysisFrom, svc, ext>>

\* the Start AI Analysis button (part_001:422-433)
StartAnalysis ==
    /\ AnalysisCardRendered
    /\ ~isAnalyzing
    /\ analysis = JsNull
    /\ callsStarted < MaxCalls
    /\ SetPane(analyzeDocument(extractedText, PaneState))
    /\ lastOp' = "startAnalysis"
    /\ UNCHANGED <<apiKey, uploadedFile, extractedText, appAnalysis, uploadVars,
                   analysis, chatVars, extractionJob, analysisFrom, svc, ext>>

\* the Retry Analysis button of the error alert (part_001:439-459)
RetryAnalysis ==
    /\ AnalysisCardRendered
    /\ analysisError # NoError
    /\ callsStarted < MaxCalls
    /\ SetPane(analyzeDocument(extractedText, PaneState))
    /\ lastOp' = "retryAnalysis"
    /\ UNCHANGED <<apiKey, uploadedFile, extractedText, appAnalysis, uploadVars,
                   analysis, chatVars, extractionJob, analysisFrom, svc, ext>>

\* the Dismiss button of the error alert (part_001:446-453)
DismissError ==
    /\ AnalysisCardRendered
    /\ analysisError # NoError
    /\ analysisError' = NoError
    /\ lastOp' = "dismissError"
    /\ UNCHANGED <<apiKey, uploadedFile, extractedText, appAnalysis, isAnalyzing,
                   uploadVars, analysis, autoAnalyzeStarted, analyzeCalls,
                   callsStarted, chatVars, extractionJob, analysisFrom, svc, ext>>

\* Re-analyze keeping the shown result until a new one arrives
ReanalyzeKeepResult(prior) == prior

\* what the Re-analyze Document handler stores in analysis (part_001:409)
ReanalyzeResult(prior) == JsNull

\* the Re-analyze Document button (part_001:407-420): the handler, then the
\* render and the auto-analyze effect, whose dependency the handler changed
Reanalyze ==
    /\ AnalysisCardRendered
    /\ ~isAnalyzing
    /\ analysis # JsNull
    /\ callsStarted + 2 <= MaxCalls
    /\ analysis' = ReanalyzeResult(analysis)
    /\ SetPane(autoAnalyzeEffect(extractedText,
                 analyzeDocument(extractedText,
                   [PaneState EXCEPT !.autoAnalyzeStarted = FALSE])))
    /\ lastOp' = "reanalyze"
    /\ UNCHANGED <<apiKey, uploadedFile, extractedText, appAnalysis, uploadVars,
                   chatVars, extractionJob, analysisFrom, svc, ext>>

\* the replies taken in a session: those that analyzeDocument turns into a
\* complete AnalysisResult, into null or into the fallback.  A reply that
\* parses to an object of another shape is taken in direct calls only: what
\* rendering it does to the page is decided outside these files.
SessionReplies ==
    {<<"{", "A", "}">>,
     FenceJson \o Newline \o <<"{", "A", "}">> \o Newline \o Fence,
     <<"N">>,
     <<"x", " ", "x">>,
     Fence \o Newline \o <<"{", "A">> \o Newline \o Fence}

\* analyzeDocument without its finally block: the flag is left as it was
analyzingLeftAsItWas(analyzing) == analyzing

\* the finally block of analyzeDocument (part_001:77-79): the value it gives
\* the isAnalyzing flag
analyzingAfterFinally(analyzing) == FALSE

\* analyzeDocument from its await on (part_001:71-79): one pending call
\* settles
AnalyzeSettle ==
    /\ \E call \in analyzeCalls, ok \in BOOLEAN, reply \in SessionReplies :
         LET out == AnalyzeDocument(call.text, ok, reply)
         IN  /\ analyzeCalls' = analyzeCalls \ {call}
             /\ IF out.kind = "return"
                THEN /\ analysis' = out.value
                     /\ handleAnalysisComplete(JSONStringify(out.value))
                     /\ analysisFrom' = call.id
                     /\ UNCHANGED analysisError
                ELSE /\ analysisError' = out.message
                     /\ isAnalyzing' = analyzingAfterFinally(isAnalyzing)
                     /\ UNCHANGED <<analysis, appAnalysis, analysisFrom>>
    /\ lastOp' = "analyzeSettle"
    /\ UNCHANGED <<apiKey, uploadedFile, extractedText, uploadVars,
                   autoAnalyzeStarted, callsStarted, chatVars, extractionJob, svc, ext>>

\* the text field's onChange (disabled while loading) and the suggested
\* question buttons (part_002:286-310, 316-324)
SetInput ==
    /\ ChatFormRendered
    /\ \E v \in Inputs :
         /\ \/ ~isLoading
            \/ (Len(messages) <= 1 /\ v \in SuggestedQuestions)
         /\ input' = v
    /\ lastOp' = "setInput"
    /\ UNCHANGED <<apiKey, uploadedFile, extractedText, appAnalysis, isAnalyzing,
                   uploadVars, analysis, paneVars, messages, isLoading, chatError,
                   askCalls, questionsAsked, extractionJob, analysisFrom, svc, ext>>

\* handleSubmit's first guard with the emptiness test dropped
SubmitIgnoredOnlyLoading(text, loading) == loading

\* handleSubmit's first guard (part_002:69)
SubmitIgnoredGuard(text, loading) == Trim(text) = <<>> \/ loading

\* handleSubmit without its setIsLoading(true): the flag is left as it was
loadingLeftUnset(loading) == loading

\* setIsLoading(true) (part_002:90): the value handleSubmit gives the flag
loadingAfterSubmit(loading) == TRUE

\* handleSubmit up to its await (part_002:67-98), on the form's submit event
handleSubmit ==
    /\ ChatFormRendered
    /\ (~SubmitIgnoredGuard(input, isLoading)) => questionsAsked < MaxQuestions
    /\ IF SubmitIgnoredGuard(input, isLoading)
       THEN UNCHANGED chatVars
       ELSE IF ~IsConfigured
       THEN /\ chatError' = ChatNotConfiguredMsg
            /\ UNCHANGED <<messages, input, isLoading, askCalls, questionsAsked>>
       ELSE IF extractedText = <<>>
       THEN /\ chatError' = ChatNoTextMsg
            /\ UNCHANGED <<messages, input, isLoading, askCalls, questionsAsked>>
       ELSE /\ messages' = Append(messages, UserMessage(Trim(input)))
            /\ input' = <<>>
            /\ isLoading' = loadingAfterSubmit(isLoading)
            /\ chatError' = NoError
            /\ askCalls' = askCalls \cup
                 {[id |-> questionsAsked + 1, documentText |-> extractedText,
                   question |-> Trim(input), previousContext |-> appAnalysis]}
            /\ questionsAsked' = questionsAsked + 1
    /\ lastOp' = "handleSubmit"
    /\ UNCHANGED <<apiKey, uploadedFile, extractedText, appAnalysis, isAnalyzing,
                   uploadVars, analysis, paneVars, extractionJob, analysisFrom, svc, ext>>

\* the assistant turn appended when askQuestion rejects, with the raw error
\* shown instead of the apology
AnswerContentRawError(out) ==
    IF out.kind = "return" THEN Chars(out.value) ELSE Literal(out.message)

\* the content of the assistant turn handleSubmit appends (part_002:100-118)
AnswerContent(out) ==
    IF out.kind = "return" THEN Chars(out.value) ELSE Literal(ApologyText)

\* handleSubmit from its await on (part_002:94-121): the pending question
\* settles
AskSettle ==
    /\ \E call \in askCalls, ok \in BOOLEAN, reply \in AskReplies :
         LET out == AskQuestion(call.documentText, call.question,
                                call.previousContext, ok, reply)
         IN  /\ askCalls' = askCalls \ {call}
             /\ messages' = Append(messages, AssistantMessage(AnswerContent(out)))
             /\ chatError' = IF out.kind = "throw" THEN out.message ELSE chatError
             /\ isLoading' = FALSE
    /\ lastOp' = "askSettle"
    /\ UNCHANGED <<apiKey, uploadedFile, extractedText, appAnalysis, isAnalyzing,
                   uploadVars, analysis, paneVars, input, questionsAsked,
                   extractionJob, analysisFrom, svc, ext>>

\* the Clear Chat button (part_002:124-135, shown at part_002:155-164)
clearChat ==
    /\ uploadedFile # NoFile
    /\ Len(messages) > 1
    /\ messages' = <<WelcomeMessage(uploadedFile.name)>>
    /\ chatError' = NoError
    /\ lastOp' = "clearChat"
    /\ UNCHANGED <<apiKey, uploadedFile, extractedText, appAnalysis, isAnalyzing,
                   uploadVars, analysis, paneVars, input, isLoading, askCalls,
                   questionsAsked, extractionJob, analysisFrom, svc, ext>>

Next ==
    \/ Drop
    \/ ExtractSettle
    \/ StartAnalysis
    \/ RetryAnalysis
    \/ DismissError
    \/ Reanalyze
    \/ AnalyzeSettle
    \/ SetInput
    \/ handleSubmit
    \/ AskSettle
    \/ clearChat

\* the session: user actions and settlements in any order
Spec == Init /\ [][Next]_vars

NextService ==
    \/ SvcCallAnalyze
    \/ SvcSettleAnalyze
    \/ SvcCallAsk
    \/ SvcSettleAsk

\* direct calls of GeminiService.analyzeDocument and askQuestion on every
\* input
SpecService == Init /\ [][NextService]_vars

NextExtract ==
    \/ ExtCall
    \/ ExtOpened
    \/ ExtPageDone
    \/ ExtJoin
    \/ ExtHandled

\* one extraction of every kind of document, its pages settling in any order
SpecExtract == Init /\ [][NextExtract]_vars

----------------------------------------------------------------------------
(* Claims *)

\* the step is a settlement of an analyzeDocument call that returned
AnalysisSucceeded == lastOp' = "analyzeSettle" /\ analysisFrom' # analysisFrom

\* the step is a settlement of an analyzeDocument call that threw
AnalysisFailed == lastOp' = "analyzeSettle" /\ analysisFrom' = analysisFrom

C3_FailedExtractionReturnsToEmpty ==
    (lastOp = "extractSettle" /\ extractedText = <<>>) =>
        /\ uploadedFile = NoFile
        /\ PDFUploadMounted
        /\ extractionError # NoError
        /\ ~isExtracting
        /\ extractionJob = NoFile

\* the file breaks the type rule or the size rule of the upload boundary
Invalid(file) == file.type # PdfMime \/ file.size > MaxFileSize

\* C4: dropping a file of another declared type or of more than 50 MB sets
\* a descriptive error and changes nothing else: no current file, no
\* extraction job, text and analysis as before; a PDF of exactly 50 MB is
\* taken.
C4_InvalidFileRejectedWithError ==
    [][\A file \in Files :
         DropFile(file) =>
           IF Invalid(file)
           THEN /\ extractionError' \in {PdfOnlyMsg, TooLargeMsg}
                /\ UNCHANGED <<uploadedFile, extractedText, appAnalysis, analysis,
                               extractionJob>>
           ELSE uploadedFile' = file /\ extractionJob' = file]_vars

\* a direct analyzeDocument call has settled
AnalyzeSettled == svc.phase = "settled" /\ svc.method = "analyzeDocument"

\* replies whose body is prose, truncated JSON or empty, bare or fenced
MalformedReplies ==
    {p \o b \o s : p \in ReplyPrefixes, b \in {<<"{", "A">>, <<"x", " ", "x">>, <<>>},
                   s \in ReplySuffixes}

\* C5: with the service configured and the call delivered, analyzeDocument
\* returns for every reply, and for every reply that is not parseable JSON
\* once the fences are stripped (prose, truncated JSON, fenced malformed
\* content, the empty string) it returns the one fallback record, whatever
\* the document text and the reply.
C5_MalformedReplyYieldsFallback ==
    (AnalyzeSettled /\ HasModel /\ svc.transportOk) =>
        /\ svc.out.kind = "return"
        /\ (svc.reply \in MalformedReplies \/ ~JSONParse(cleanGeminiResponse(svc.reply)).ok)
             => svc.out = Return(JsObject(FallbackAnalysis))

\* a fenced truncated body has been answered with the fallback record
C5_Witness ==
    /\ AnalyzeSettled
    /\ svc.reply = FenceJson \o Newline \o <<"{", "A">> \o Newline \o Fence
    /\ svc.out = Return(JsObject(FallbackAnalysis))

\* C6: analyzeDocument throws, and does not return the fallback record, when
\* the call fails in transport or no credential is configured; when a call
\* of the session fails, the pane's result and the Q&A copy stay as they
\* were, no call's result is recorded, and the pane's error is the failure
\* message.
C6_TransportFailureRaises ==
    [][/\ \A reply \in SessionReplies, ok \in BOOLEAN :
            (~ok \/ ~HasModel) =>
               /\ AnalyzeDocument(extractedText, ok, reply).kind = "throw"
               /\ AnalyzeDocument(extractedText, ok, reply).message =
                    (IF HasModel THEN AnalyzeFailedMsg ELSE NotConfiguredMsg)
       /\ AnalysisFailed =>
            /\ analysis' = analysis
            /\ appAnalysis' = appAnalysis
            /\ analysisError' = AnalyzeFailedMsg
            /\ ~isAnalyzing']_vars

\* the automatic analysis failed in transport: nothing stored, error shown
C6_Witness ==
    /\ lastOp = "analyzeSettle"
    /\ callsStarted = 1
    /\ analyzeCalls = {}
    /\ analysis = JsNull
    /\ appAnalysis = EmptyString
    /\ analysisFrom = 0
    /\ analysisError = AnalyzeFailedMsg

\* C7: the result of an analysis call that was started before the call whose
\* result is stored never replaces it: the stored result always comes from a
\* call at least as recent as the one it replaces.
C7_StaleResultIgnored ==
    [][analysisFrom' >= analysisFrom]_vars

\* C8: submitting a question that is empty after trimming changes neither
\* the conversation nor the loading flag nor the error, and issues no call.
C8_EmptyQuestionNoOp ==
    [][(lastOp' = "handleSubmit" /\ Trim(input) = <<>>) =>
         UNCHANGED <<messages, input, isLoading, chatError, askCalls, questionsAsked>>]_vars

\* a blank question has been submitted and nothing was sent
C8_Witness ==
    /\ lastOp = "handleSubmit"
    /\ input = <<" ">>
    /\ questionsAsked = 0
    /\ askCalls = {}
    /\ Len(messages) = 1

\* the last message of the conversation after the step
LastMessage == messages'[Len(messages')]

\* C9: a non-empty question submitted in Ready (no question pending)
\* appends exactly one user turn at once, sets the loading flag and issues
\* one call (a submit while one is pending is ignored); the settlement
\* appends exactly one assistant turn and nothing else, the reply verbatim
\* when the call returned and the fixed apology, not the error message, when
\* it threw, and clears the loading flag.
C9_QuestionAppendsUserThenAssistant ==
    [][/\ (lastOp' = "handleSubmit" /\ Trim(input) # <<>>) =>
            IF isLoading
            THEN UNCHANGED <<messages, askCalls, isLoading>>
            ELSE /\ messages' = Append(messages, UserMessage(Trim(input)))
                 /\ isLoading'
                 /\ Cardinality(askCalls') = Cardinality(askCalls) + 1
       /\ (lastOp' = "askSettle") =>
            /\ Len(messages') = Len(messages) + 1
            /\ SubSeq(messages', 1, Len(messages)) = messages
            /\ LastMessage.type = "assistant"
            /\ IF chatError' = NoError
               THEN LastMessage.content \in {Chars(r) : r \in AskReplies}
               ELSE /\ LastMessage.content = Literal(ApologyText)
                    /\ LastMessage.content # Literal(chatError')
            /\ ~isLoading'
            /\ Cardinality(askCalls') = Cardinality(askCalls) - 1]_vars

\* a question was asked and its call failed: greeting, question, apology
C9_Witness ==
    /\ lastOp = "askSettle"
    /\ Len(messages) = 3
    /\ messages[2] = UserMessage(<<"r">>)
    /\ messages[3] = AssistantMessage(Literal(ApologyText))
    /\ chatError = AskFailedMsg
    /\ ~isLoading

\* C10: the step in which the extracted text arrives starts exactly one
\* analysis call, on that text, when the service is configured, and none
\* when it is not; a session without a credential never starts one.
C10_AutoAnalysisOnce ==
    [][/\ (extractedText = <<>> /\ extractedText' # <<>>) =>
            IF IsConfigured
            THEN /\ callsStarted = 0 /\ callsStarted' = 1
                 /\ analyzeCalls' = {[id |-> 1, text |-> extractedText']}
                 /\ isAnalyzing' /\ autoAnalyzeStarted'
            ELSE callsStarted' = 0 /\ analyzeCalls' = {} /\ ~isAnalyzing'
       /\ (extractedText # <<>>) => extractedText' = extractedText
       /\ (~IsConfigured) => callsStarted' = 0]_vars

\* the text has just arrived and the one automatic call is pending
C10_Witness ==
    /\ lastOp = "extractSettle"
    /\ IsConfigured
    /\ extractedText # <<>>
    /\ callsStarted = 1
    /\ Cardinality(analyzeCalls) = 1
    /\ isAnalyzing

\* C11 as stated: when an analysis call settles, the session is no longer
\* analyzing and holds an AnalysisResult.
C11_SettleStoresResult ==
    [][(lastOp' = "analyzeSettle") => (~isAnalyzing' /\ analysis' # JsNull)]_vars

\* C11 amended: when an analysis call settles, the call is no longer pending
\* and the analyzing flag is cleared; when it returned, what it returned is
\* stored in the pane and its serialization in App, and the error is left
\* alone; when it threw (transport failure), nothing is stored and the pane's
\* error is the failure message.
C11_SettleLeavesAnalyzing ==
    [][(lastOp' = "analyzeSettle") =>
         /\ ~isAnalyzing'
         /\ Cardinality(analyzeCalls') = Cardinality(analyzeCalls) - 1
         /\ IF AnalysisSucceeded
            THEN /\ \E reply \in SessionReplies :
                      Return(analysis') = AnalyzeDocument(extractedText, TRUE, reply)
                 /\ appAnalysis' = JSONStringify(analysis')
                 /\ analysisError' = analysisError
            ELSE /\ analysis' = analysis
                 /\ appAnalysis' = appAnalysis
                 /\ analysisError' = AnalyzeFailedMsg]_vars

\* the one automatic call returned on an unparseable reply: not analyzing,
\* the fallback record stored in the pane and serialized in App
C11_Witness ==
    /\ lastOp = "analyzeSettle"
    /\ callsStarted = 1
    /\ analyzeCalls = {}
    /\ ~isAnalyzing
    /\ analysis = JsObject(FallbackAnalysis)
    /\ appAnalysis = JSONStringify(JsObject(FallbackAnalysis))
    /\ analysisError = NoError

\* C12: while no API key is present no step issues an analyzeDocument or
\* askQuestion call and none is pending, whatever the user does; every step
\* that issues one is taken with the service configured; and an extraction
\* that yields a text delivers it to the session with or without a key.
C12_NoCallWithoutKey ==
    [][/\ (~IsConfigured) =>
            /\ callsStarted' = 0 /\ analyzeCalls' = {}
            /\ questionsAsked' = 0 /\ askCalls' = {}
            /\ ~isAnalyzing' /\ ~isLoading'
       /\ (callsStarted' # callsStarted \/ questionsAsked' # questionsAsked) =>
            IsConfigured
       /\ (lastOp' = "extractSettle" /\ extractionJob # NoFile) =>
            LET out == extractTextFromPDF(extractionJob)
            IN  (out.kind = "return") => (extractedText' = out.value /\ uploadedFile' = extractionJob)]_vars

\* without a key, a PDF has been uploaded and its text extracted, and no call
\* was issued
C12_Witness ==
    /\ ~IsConfigured
    /\ lastOp = "extractSettle"
    /\ uploadedFile # NoFile
    /\ Len(extractedText) >= MinTextLength
    /\ callsStarted = 0
    /\ analyzeCalls = {}
    /\ messages # <<>>

\* C13: at most one analyzeDocument call is pending at any time, and no
\* user action or effect run issues more than one call.
C13_OneAnalysisInFlight ==
    [][Cardinality(analyzeCalls') <= 1 /\ callsStarted' <= callsStarted + 1]_vars

\* C14: every assistant turn of the conversation other than the greeting
\* that opens it stands immediately after a user turn.
C14_TurnsPaired ==
    \A i \in 1..Len(messages) :
        (messages[i].type = "assistant") =>
            IF i = 1
            THEN messages[i] = WelcomeMessage(uploadedFile.name)
            ELSE messages[i - 1].type = "user"

\* C15: the progress values one extraction reports never decrease, in
\* whatever order its pages settle.
C15_ProgressMonotone ==
    (ext.phase \in {"pages", "settled", "handled"}) =>
        \A i, j \in 1..Len(ext.reports) :
            (i <= j) => ext.reports[i] <= ext.reports[j]

\* every page of the document yields its text
Readable(doc) == doc.opens /\ \A i \in 1..Len(doc.pages) : doc.pages[i].ok

\* C16: a text that extraction hands to the session is non-empty, at least
\* 50 characters long, starts and ends with a non-blank character and has no
\* two blank characters in a row; a readable document whose normalized text
\* is shorter than 50 characters fails with the insufficient-text error and
\* hands over nothing, and one of 50 characters or more hands over its
\* normalized text without error.
C16_DeliveredTextNormalized ==
    (ext.phase = "handled") =>
        LET t == ext.delivered
            normalized == CleanText(FullText(ext.doc))
        IN  /\ (t # <<>>) =>
                 /\ Len(t) >= MinTextLength
                 /\ ~IsSpace(t[1]) /\ ~IsSpace(t[Len(t)])
                 /\ \A i \in 1..(Len(t) - 1) : ~(IsSpace(t[i]) /\ IsSpace(t[i + 1]))
            /\ Readable(ext.doc) =>
                 IF Len(normalized) < MinTextLength
                 THEN t = <<>> /\ ext.error = InsufficientReadableMsg
                 ELSE t = normalized /\ ext.error = NoError
            /\ (~Readable(ext.doc)) => (t = <<>> /\ ext.error # NoError)

\* a page with blanks before, inside and after its two words has been handed
\* over as a text of exactly 50 characters
C16_Witness ==
    /\ ext.phase = "handled"
    /\ ext.doc \in DocsPadded
    /\ Len(FullText(ext.doc)) > MinTextLength + 4
    /\ IsSpace(FullText(ext.doc)[1])
    /\ Len(ext.delivered) = MinTextLength
    /\ ext.error = NoError

ExampleInput == <<"A", " ", "B", " ", " ", " ", " ", "C", "\n", "\n", "\n", "D">>

ExampleOutput == <<"A", " ", "B", " ", "C", "\n", "D">>

\* C17: the joined page text "A B    C\n\n\nD" normalizes to "A B C\nD": the
\* spaces collapsed to one, the blank lines to one line break that is kept.
C17_ExampleNormalizes ==
    (ext.phase = "settled" /\ FullText(ext.doc) = ExampleInput) =>
        ext.cleanedText = ExampleOutput

\* the opening and closing fence lines of a fenced reply, with blanks around
FenceOpenings == {FenceJson \o Newline, Fence \o Newline, Blank \o FenceJson \o Newline}

FenceClosings == {Newline \o Fence, Newline \o Fence \o Newline}

\* C18: analyzeDocument on a reply that is a body between an opening fence
\* line (with or without the json tag) and a closing fence line, blanks
\* around them or not, settles exactly as on the body alone, for every body:
\* well formed, of another shape, truncated, prose or empty.
C18_FencedParsesAsBody ==
    AnalyzeSettled =>
        \A p \in FenceOpenings, b \in ReplyBodies, s \in FenceClosings :
            (svc.reply = p \o b \o s) =>
                svc.out = AnalyzeDocument(svc.text, svc.transportOk, b)

\* a well-formed record in a json fence has been returned as the record
C18_Witness ==
    /\ AnalyzeSettled
    /\ svc.transportOk /\ HasModel
    /\ svc.reply = FenceJson \o Newline \o <<"{", "A", "}">> \o Newline \o Fence
    /\ svc.out = Return(JsObject(MembersA))

\* the names of the eight members of AnalysisResult
EightFields == {"summary", "keyPoints", "legalIssues", "recommendations",
                "documentType", "parties", "dates", "jurisdiction"}

\* the value is an object with the eight members
HasEightFields(value) == value.kind = "object" /\ DOMAIN value.obj = EightFields

\* C19: whatever analyzeDocument returns is an object with all eight
\* members of AnalysisResult.
C19_ResultHasAllFields ==
    (AnalyzeSettled /\ svc.out.kind = "return") => HasEightFields(svc.out.value)

\* what stands for "no data" in parties and dates: the sentinel, and the
\* placeholder of the fallback record
NoDataValues == {"Not specified", "Analysis in progress"}

\* C20: for a returned record with its eight members, no chip of the
\* Parties Involved or Important Dates lists shows the sentinel or the
\* fallback placeholder, wherever it stands in the list.
C20_SentinelNeverListed ==
    (AnalyzeSettled /\ svc.out.kind = "return" /\ HasEightFields(svc.out.value)) =>
        LET result == svc.out.value.obj
        IN  /\ \A i \in 1..Len(partiesChips(result)) :
                 partiesChips(result)[i] \notin NoDataValues
            /\ \A i \in 1..Len(datesChips(result)) :
                 datesChips(result)[i] \notin NoDataValues

\* C21: after every failure the action that failed is offered again: after
\* a rejected file or a failed extraction the dropzone is rendered and takes
\* a file; after a failed analysis the card with Retry Analysis is rendered;
\* after a failed question the form is rendered and not loading.
C21_FailedActionOfferedAgain ==
    /\ (lastOp = "onDrop" /\ extractionError # NoError) =>
            (PDFUploadMounted /\ ~isExtracting)
    /\ (lastOp = "extractSettle" /\ extractedText = <<>>) =>
            (PDFUploadMounted /\ ~isExtracting)
    /\ (lastOp = "analyzeSettle" /\ analysisError # NoError) =>
            AnalysisCardRendered
    /\ (lastOp = "askSettle" /\ chatError # NoError) =>
            (ChatFormRendered /\ ~isLoading)

\* the greeting of the current document
Greeting == WelcomeMessage(uploadedFile.name)

\* C22: once a document's text is loaded the conversation is never empty,
\* its first turn is the greeting and no later turn is; submitting and
\* settling keep every earlier turn in place and add at most one; Clear Chat
\* leaves the greeting alone.
C22_GreetingThenAppendOnly ==
    [][/\ (extractedText' # <<>>) =>
            /\ Len(messages') >= 1
            /\ messages'[1] = WelcomeMessage(uploadedFile'.name)
            /\ \A i \in 2..Len(messages') : messages'[i].content \notin
                                             {[welcome |-> f.name] : f \in Files}
       /\ (lastOp' \in {"handleSubmit", "askSettle"}) =>
            /\ Len(messages') \in {Len(messages), Len(messages) + 1}
            /\ SubSeq(messages', 1, Len(messages)) = messages
       /\ (lastOp' = "clearChat") =>
            messages' = <<WelcomeMessage(uploadedFile'.name)>>]_vars

\* a question was asked and answered and the chat then cleared
C22_Witness ==
    /\ lastOp = "clearChat"
    /\ questionsAsked = 1
    /\ askCalls = {}
    /\ messages = <<Greeting>>

\* C23: the text an extraction settles with is the page texts joined by
\* page number and normalized, whatever the order its pages settled in.
C23_JoinedByPageIndex ==
    (ext.phase \in {"settled", "handled"} /\ Readable(ext.doc)) =>
        /\ ext.cleanedText = CleanText(FullText(ext.doc))
        /\ ext.out = extractTextFromPDF([doc |-> ext.doc])

\* the example document's second page settled first and the text still has
\* the first page's words first
C23_Witness ==
    /\ ext.phase = "settled"
    /\ ext.doc = DocExample
    /\ ext.order = <<2, 1>>
    /\ Head(ext.cleanedText) = "A"
    /\ ext.cleanedText[Len(ext.cleanedText)] = "D"

\* C24: when pdfjs fails on the document or on one of its pages, the
\* settled upload shows one error message, that of the parser, and the
\* session has no extracted text and no success flag.
C24_ParserFailureSurfaced ==
    (lastOp = "extractSettle" /\ ~Readable(uploadedFile.doc)) =>
        /\ extractionError \in {ParserOpenMsg, ParserPageMsg}
        /\ extractedText = <<>>
        /\ ~extractionSuccess

\* C29: once onDrop has handled the outcome of the extraction, the progress
\* value is 0 and stays 0, also when a page settles after another page has
\* failed the extraction.
C29_ProgressStaysZero ==
    (ext.phase = "handled") => ext.progress = 0

\* C25: the analyzing flag is set exactly while an analysis call is
\* pending.
C25_AnalyzingIffInFlight ==
    isAnalyzing <=> (analyzeCalls # {})

C28_TextBelongsToFile ==
    [][/\ (extractedText' # <<>>) => uploadedFile' # NoFile
       /\ (extractedText' # extractedText) =>
            /\ uploadedFile' = uploadedFile
            /\ Return(extractedText') = extractTextFromPDF(uploadedFile')
       /\ (extractedText # <<>>) =>
            (extractedText' = extractedText /\ uploadedFile' = uploadedFile)
       /\ \A call \in analyzeCalls' : call.text # <<>> /\ call.text = extractedText'
       /\ \A call \in askCalls' : call.documentText # <<>> /\ call.documentText = extractedText'
       /\ (lastOp' \in {"startAnalysis", "retryAnalysis"} /\ extractedText = <<>>) =>
            (analysisError' = NoTextMsg /\ callsStarted' = callsStarted)]_vars

\* analysis was requested for a file whose extraction had failed: no call,
\* the missing text reported
C28_Witness ==
    /\ lastOp = "startAnalysis"
    /\ uploadedFile # NoFile
    /\ extractedText = <<>>
    /\ analysisError = NoTextMsg
    /\ callsStarted = 0
    /\ analyzeCalls = {}

====
